---- MODULE Spec2Model ----
(***************************************************************************)
(* Model of src/app.py: the round-up savings API (remanent, tax brackets,  *)
(* date-ranged rule resolution, validation/deduplication, returns).        *)
(*                                                                         *)
(* Representation.  A Decimal is an integer count of thousandths (1.000 is *)
(* 1000), so that values with more than two fraction digits exist and      *)
(* quantize(Decimal('0.01'), ROUND_HALF_UP) is a real rounding to a        *)
(* multiple of 10.  A date string is a tuple of one-character strings; a   *)
(* datetime is the tuple <<year, month, day, hour, minute, second>>,       *)
(* ordered lexicographically.                                              *)
(***************************************************************************)
EXTENDS Integers, Sequences, FiniteSets, TLC

VARIABLES
    op,                 \* which entry point this run exercises
    pc,                 \* position inside that entry point
    payload,            \* the request body / the arguments
    result,             \* value returned by a pure function
    i,                  \* index of the next transaction of the loop
    seen_dates,         \* set of date strings already accepted
    valid,              \* valid list being built
    invalid,            \* invalid list being built
    parsed_q,           \* [(start, end, fixed, idx)]
    parsed_p,           \* [(start, end, extra)]
    parsed_k,           \* [(start, end, start_str, end_str)]
    valid_txs,          \* calculate_returns: [(tx_dt, remanent)]
    total_tx_amount,
    total_ceiling,
    savings_by_dates

vars == <<op, pc, payload, result, i, seen_dates, valid, invalid, parsed_q,
          parsed_p, parsed_k, valid_txs, total_tx_amount, total_ceiling,
          savings_by_dates>>

handlerVars == <<i, seen_dates, valid, invalid, parsed_q, parsed_p, parsed_k,
                 valid_txs, total_tx_amount, total_ceiling, savings_by_dates>>

\* The state of the request-scoped locals before any handler has run.
HandlerIdle ==
    /\ i = 1
    /\ seen_dates = {}
    /\ valid = <<>>
    /\ invalid = <<>>
    /\ parsed_q = <<>>
    /\ parsed_p = <<>>
    /\ parsed_k = <<>>
    /\ valid_txs = <<>>
    /\ total_tx_amount = 0
    /\ total_ceiling = 0
    /\ savings_by_dates = <<>>

(***************************************************************************)
(* Decimal arithmetic                                                      *)
(***************************************************************************)

\* Decimal('u.mmm') as a count of thousandths.
Dec(units, milli) == units * 1000 + milli

Abs(x) == IF x < 0 THEN -x ELSE x

\* Decimal.__mod__: the remainder takes the sign of the dividend.
DecRem(a, b) == IF a < 0 THEN -((-a) % Abs(b)) ELSE a % Abs(b)

\* n / d rounded to an integer, ties away from zero (ROUND_HALF_UP), d > 0.
HalfUpDiv(n, d) ==
    IF n >= 0 THEN (2 * n + d) \div (2 * d)
              ELSE -((2 * (-n) + d) \div (2 * d))

\* x.quantize(Decimal('0.01'), rounding=ROUND_HALF_UP)
Quantize(x) == 10 * HalfUpDiv(x, 10)

RECURSIVE SumSeq(_)
SumSeq(s) == IF s = <<>> THEN 0 ELSE Head(s) + SumSeq(Tail(s))

Min(a, b) == IF a <= b THEN a ELSE b

(***************************************************************************)
(* calculate_remanent                                                      *)
(***************************************************************************)

calculate_remanent(amount) ==
    LET hundred == Dec(100, 0)
        remanent == DecRem(hundred - DecRem(amount, hundred), hundred)
    IN Quantize(remanent)

(***************************************************************************)
(* Tax bracket table and calculate_tax                                     *)
(***************************************************************************)

THRESHOLDS == <<Dec(700000, 0), Dec(1000000, 0), Dec(1200000, 0), Dec(1500000, 0)>>

PREV_THRESHOLDS ==
    <<Dec(0, 0), Dec(700000, 0), Dec(1000000, 0), Dec(1200000, 0), Dec(1500000, 0)>>

\* A table whose third base does not continue the bracket below it.
BASE_TAX_shifted ==
    <<Dec(0, 0), Dec(0, 0), Dec(25000, 0), Dec(60000, 0), Dec(120000, 0)>>

BASE_TAX == <<Dec(0, 0), Dec(0, 0), Dec(30000, 0), Dec(60000, 0), Dec(120000, 0)>>

\* The marginal rates, in hundredths: Decimal('0.10') is 10.
RATES == <<0, 10, 15, 20, 30>>

\* bisect.bisect_right(a, x): the number of elements of the sorted a that are <= x.
bisect_right(a, x) == Cardinality({n \in 1..Len(a) : a[n] <= x})

\* BASE_TAX[idx] + (yearly_income - PREV_THRESHOLDS[idx]) * RATES[idx], quantized,
\* for the 0-based bracket idx.  The exact product d * rate has five fraction
\* digits; writing d = 1000 * dq + dr (0 <= dr < 1000), it is dq * rate hundredths
\* plus dr * rate hundred-thousandths, and since the base is a whole number of
\* hundredths only the second part is rounded.  (Splitting the product keeps
\* every intermediate value inside TLC's 32-bit integers.)
BracketTax(idx, yearly_income) ==
    LET d  == yearly_income - PREV_THRESHOLDS[idx + 1]
        dq == d \div 1000
        dr == d % 1000
    IN BASE_TAX[idx + 1] + 10 * (dq * RATES[idx + 1])
         + 10 * HalfUpDiv(dr * RATES[idx + 1], 1000)

calculate_tax(yearly_income) ==
    LET idx == bisect_right(THRESHOLDS, yearly_income)
    IN BracketTax(idx, yearly_income)

(***************************************************************************)
(* Date strings and parse_date                                             *)
(***************************************************************************)

Digits == <<"0", "1", "2", "3", "4", "5", "6", "7", "8", "9">>

IsDigit(c) == \E n \in 1..10 : Digits[n] = c

DigitVal(c) == (CHOOSE n \in 1..10 : Digits[n] = c) - 1

\* s[p..p+n-1] are all digits (and lie inside s).
DigitsAt(s, p, n) == p >= 1 /\ p + n - 1 <= Len(s) /\ \A x \in p..(p + n - 1) : IsDigit(s[x])

RECURSIVE NumAt(_, _, _)
NumAt(s, p, n) ==
    IF n = 0 THEN 0 ELSE 10 * NumAt(s, p, n - 1) + DigitVal(s[p + n - 1])

\* The ways a one- or two-digit directive (%m %d %H %M %S) matches at p, as
\* <<value, next position>>: two digits with value in lo2..hi, or one digit with
\* value in lo1..9 (strptime accepts the unpadded form).
FieldAt(s, p, lo2, hi, lo1) ==
    { <<NumAt(s, p, n), p + n>> : n \in
        { m \in {1, 2} :
            /\ DigitsAt(s, p, m)
            /\ IF m = 2 THEN NumAt(s, p, 2) \in lo2..hi
                        ELSE NumAt(s, p, 1) \in lo1..9 } }

\* %d also matches a space followed by one digit 1-9.
DayAt(s, p) ==
    FieldAt(s, p, 1, 31, 1) \cup
    { <<NumAt(s, p + 1, 1), p + 2>> : x \in
        { y \in {0} : /\ p + 1 <= Len(s)
                      /\ s[p] = " "
                      /\ DigitsAt(s, p + 1, 1)
                      /\ NumAt(s, p + 1, 1) \in 1..9 } }

\* The positions after a run of one or more spaces starting at p (the blank of
\* the format matches \s+).
SpacesAt(s, p) ==
    { e \in (p + 1)..(Len(s) + 1) : \A x \in p..(e - 1) : s[x] = " " }

LitAt(s, p, c) == p <= Len(s) /\ s[p] = c

\* Every way the whole string matches "%Y-%m-%d %H:%M:%S" (strptime compiles the
\* format to a regular expression and refuses a match that leaves characters
\* over), as the tuples of field values.  A partial match is <<fields, next>>.
FormatMatches(s) ==
    LET Lit(S, c) == { <<x[1], x[2] + 1>> : x \in { z \in S : LitAt(s, z[2], c) } }
        Fld(S, lo2, hi, lo1) ==
            UNION { { <<Append(x[1], v[1]), v[2]>> : v \in FieldAt(s, x[2], lo2, hi, lo1) } : x \in S }
        Day(S) == UNION { { <<Append(x[1], v[1]), v[2]>> : v \in DayAt(s, x[2]) } : x \in S }
        Sp(S) == UNION { { <<x[1], e>> : e \in SpacesAt(s, x[2]) } : x \in S }
        ye == IF DigitsAt(s, 1, 4) THEN { << <<NumAt(s, 1, 4)>>, 5 >> } ELSE {}
        mo == Fld(Lit(ye, "-"), 1, 12, 1)
        da == Day(Lit(mo, "-"))
        ho == Fld(Sp(da), 0, 23, 0)
        mi == Fld(Lit(ho, ":"), 0, 59, 0)
        se == Fld(Lit(mi, ":"), 0, 61, 0)
    IN { x[1] : x \in { z \in se : z[2] = Len(s) + 1 } }

IsLeap(y) == y % 4 = 0 /\ (y % 100 # 0 \/ y % 400 = 0)

DaysInMonth(y, m) ==
    IF m = 2 THEN (IF IsLeap(y) THEN 29 ELSE 28)
    ELSE IF m \in {4, 6, 9, 11} THEN 30 ELSE 31

\* The field tuples datetime(...) accepts: year 1..9999, a day of the month that
\* exists, second at most 59 (the format lets 60 and 61 through).
ValidDateTimes(s) ==
    { f \in FormatMatches(s) : f[1] >= 1 /\ f[3] <= DaysInMonth(f[1], f[2]) /\ f[6] <= 59 }

\* What parse_date raises for a string strptime refuses.
ValueError == "ValueError"

\* datetime.strptime(date_str, "%Y-%m-%d %H:%M:%S") inside the try of parse_date.
strptime(date_str) ==
    IF ValidDateTimes(date_str) = {} THEN ValueError
    ELSE CHOOSE f \in ValidDateTimes(date_str) : TRUE

\* datetime comparison a <= b, on <<year, month, day, hour, minute, second>>.
RECURSIVE TupleLe(_, _, _)
TupleLe(a, b, n) ==
    IF n > Len(a) THEN TRUE
    ELSE IF a[n] # b[n] THEN a[n] < b[n]
    ELSE TupleLe(a, b, n + 1)

DtLe(a, b) == TupleLe(a, b, 1)

(***************************************************************************)
(* process_transaction_rules_fast                                          *)
(***************************************************************************)

\* Key order of applicable_qs.sort(key=(start, idx)): a sorts before-or-equal b.
KeyLe(a, b) == IF a[1] = b[1] THEN a[2] <= b[2] ELSE DtLe(a[1], b[1])

\* The (q_start, q_idx, q_fixed) triples of the rules containing tx_date.
ApplicableQs(tx_date, qs) ==
    { <<qs[n][1], qs[n][4], qs[n][3]>> : n \in
        { m \in 1..Len(qs) : DtLe(qs[m][1], tx_date) /\ DtLe(tx_date, qs[m][2]) } }

\* applicable_qs[0] after sort(..., reverse=True): the greatest key.
FirstAfterSort(applicable_qs) ==
    CHOOSE a \in applicable_qs : \A b \in applicable_qs : KeyLe(<<b[1], b[2]>>, <<a[1], a[2]>>)

\* The for-loop over parsed_p, from rule n on.
RECURSIVE AddExtras(_, _, _, _)
AddExtras(tx_date, current_remanent, ps, n) ==
    IF n > Len(ps) THEN current_remanent
    ELSE IF DtLe(ps[n][1], tx_date) /\ DtLe(tx_date, ps[n][2])
         THEN AddExtras(tx_date, current_remanent + ps[n][3], ps, n + 1)
         ELSE AddExtras(tx_date, current_remanent, ps, n + 1)

\* Variant: the sort without reverse=True, so the earliest start comes first.
process_rules_ascending_sort(tx_date, current_remanent, qs, ps) ==
    LET applicable_qs == ApplicableQs(tx_date, qs)
        first == CHOOSE a \in applicable_qs :
                    \A b \in applicable_qs : KeyLe(<<a[1], a[2]>>, <<b[1], b[2]>>)
        after_q == IF applicable_qs # {} THEN first[3] ELSE current_remanent
    IN AddExtras(tx_date, after_q, ps, 1)

\* Variant: the P loop leaves at the first rule that applies.
RECURSIVE AddFirstExtra(_, _, _, _)
AddFirstExtra(tx_date, current_remanent, ps, n) ==
    IF n > Len(ps) THEN current_remanent
    ELSE IF DtLe(ps[n][1], tx_date) /\ DtLe(tx_date, ps[n][2])
         THEN current_remanent + ps[n][3]
         ELSE AddFirstExtra(tx_date, current_remanent, ps, n + 1)

process_rules_first_extra_only(tx_date, current_remanent, qs, ps) ==
    LET applicable_qs == ApplicableQs(tx_date, qs)
        after_q == IF applicable_qs # {} THEN FirstAfterSort(applicable_qs)[3]
                   ELSE current_remanent
    IN AddFirstExtra(tx_date, after_q, ps, 1)

process_transaction_rules_fast(tx_date, current_remanent, qs, ps) ==
    LET applicable_qs == ApplicableQs(tx_date, qs)
        after_q == IF applicable_qs # {} THEN FirstAfterSort(applicable_qs)[3]
                   ELSE current_remanent
    IN AddExtras(tx_date, after_q, ps, 1)

(***************************************************************************)
(* Inputs of the pure functions                                            *)
(***************************************************************************)

SeqsUpTo(S, n) == UNION { [1..m -> S] : m \in 0..n }

\* Amounts around the multiples of 100, with zero to three fraction digits.
RemanentAmounts ==
    { Dec(u, m) : u \in {0, 1, 10, 99, 100, 150, 199, 200},
                  m \in {0, 1, 4, 5, 6, 10, 500, 994, 995, 999} }

\* Yearly incomes around zero and around every bracket threshold.
TaxIncomes ==
    { t + d : t \in {0, Dec(700000, 0), Dec(1000000, 0), Dec(1200000, 0), Dec(1500000, 0)},
              d \in {Dec(-100, 0), -50, -5, -1, 0, 1, 5, 50, Dec(100, 0)} }

\* datetime(2023, 1, d, 0, 0, 0)
DayDt(d) == <<2023, 1, d, 0, 0, 0>>

MaxQ == 2
MaxP == 2

\* (start, end, fixed) of a Q rule and (start, end, extra) of a P rule.
QRuleInputs ==
    { <<DayDt(r[1]), DayDt(r[2]), f>> :
        r \in {<<1, 3>>, <<2, 3>>, <<2, 2>>, <<1, 1>>}, f \in {Dec(100, 0), Dec(200, 0)} }

PRuleInputs ==
    { <<DayDt(r[1]), DayDt(r[2]), e>> : r \in {<<1, 2>>, <<2, 3>>}, e \in {Dec(10, 0), Dec(20, 0)} }

\* enumerate(): every Q rule carries its 0-based position in the list.
WithIndex(qs) == [n \in 1..Len(qs) |-> <<qs[n][1], qs[n][2], qs[n][3], n - 1>>]

(***************************************************************************)
(* calculate_remanent as a one-call program                                *)
(***************************************************************************)

InitRemanent ==
    /\ op = "calculate_remanent"
    /\ pc = "call"
    /\ payload \in [amount : RemanentAmounts]
    /\ result = <<>>
    /\ HandlerIdle

CallRemanent ==
    /\ op = "calculate_remanent"
    /\ pc = "call"
    /\ result' = calculate_remanent(payload.amount)
    /\ pc' = "done"
    /\ UNCHANGED <<op, payload, handlerVars>>

NextRemanent == CallRemanent

SpecRemanent == InitRemanent /\ [][NextRemanent]_vars

(***************************************************************************)
(* calculate_tax on a pair of incomes                                      *)
(***************************************************************************)

InitTax ==
    /\ op = "calculate_tax"
    /\ pc = "call"
    /\ payload \in [a : TaxIncomes, b : TaxIncomes]
    /\ result = <<>>
    /\ HandlerIdle

CallTax ==
    /\ op = "calculate_tax"
    /\ pc = "call"
    /\ result' = [a |-> calculate_tax(payload.a), b |-> calculate_tax(payload.b)]
    /\ pc' = "done"
    /\ UNCHANGED <<op, payload, handlerVars>>

NextTax == CallTax

SpecTax == InitTax /\ [][NextTax]_vars

(***************************************************************************)
(* process_transaction_rules_fast as a one-call program                    *)
(***************************************************************************)

InitRules ==
    /\ op = "process_transaction_rules_fast"
    /\ pc = "call"
    /\ \E t \in 1..3, qs \in SeqsUpTo(QRuleInputs, MaxQ), ps \in SeqsUpTo(PRuleInputs, MaxP) :
          payload = [tx_date |-> DayDt(t), current_remanent |-> Dec(50, 0),
                     parsed_q |-> WithIndex(qs), parsed_p |-> ps]
    /\ result = <<>>
    /\ HandlerIdle

CallRules ==
    /\ op = "process_transaction_rules_fast"
    /\ pc = "call"
    /\ result' = process_transaction_rules_fast(payload.tx_date, payload.current_remanent,
                                                payload.parsed_q, payload.parsed_p)
    /\ pc' = "done"
    /\ UNCHANGED <<op, payload, handlerVars>>

NextRules == CallRules

SpecRules == InitRules /\ [][NextRules]_vars

(***************************************************************************)
(* Requests                                                                *)
(***************************************************************************)

None == "None"

\* "2023-01-01", "2023-01-02", and the first written without zero padding.
Jan01 == <<"2", "0", "2", "3", "-", "0", "1", "-", "0", "1">>
Jan02 == <<"2", "0", "2", "3", "-", "0", "1", "-", "0", "2">>
Jan1Unpadded == <<"2", "0", "2", "3", "-", "1", "-", "1">>

Midnight == <<"0", "0", ":", "0", "0", ":", "0", "0">>
TenOClock == <<"1", "0", ":", "0", "0", ":", "0", "0">>
EndOfDay == <<"2", "3", ":", "5", "9", ":", "5", "9">>

Stamp(date, time) == date \o <<" ">> \o time

\* "2023-01-02T10:00:00": not in the format.
IsoStamp == Jan02 \o <<"T">> \o TenOClock

TxDates == {Stamp(Jan01, TenOClock), Stamp(Jan1Unpadded, TenOClock),
            Stamp(Jan02, TenOClock), IsoStamp}

\* (amount, ceiling, remanent) as the client sends them.
TxAmounts == { <<Dec(-10, 0), Dec(0, 0), Dec(0, 0)>>, <<Dec(50, 0), Dec(100, 0), Dec(50, 0)>> }

MaxTx == 3

\* The transactions of a request; ix is the identity of the object (its position
\* in payload.transactions), which the handlers mutate and append by reference.
MakeTxs(ds, am) ==
    [n \in 1..Len(ds) |->
        [ix |-> n, date |-> ds[n], amount |-> am[n][1], ceiling |-> am[n][2],
         remanent |-> am[n][3], inkPeriod |-> None, message |-> None]]

TxLists ==
    UNION { { MakeTxs(ds, am) : ds \in [1..m -> TxDates], am \in [1..m -> TxAmounts] } :
            m \in 0..MaxTx }

QLists ==
    { <<>>,
      << [fixed |-> Dec(100, 0), start |-> Stamp(Jan01, Midnight), end |-> Stamp(Jan02, EndOfDay)],
         [fixed |-> Dec(-100, 0), start |-> Stamp(Jan01, Midnight), end |-> Stamp(Jan01, TenOClock)] >> }

PLists ==
    { <<>>,
      << [extra |-> Dec(0, 5), start |-> Stamp(Jan01, Midnight), end |-> Stamp(Jan02, EndOfDay)] >> }

KLists ==
    { <<>>,
      << [start |-> Stamp(Jan01, Midnight), end |-> Stamp(Jan01, EndOfDay)],
         [start |-> Stamp(Jan01, TenOClock), end |-> Stamp(Jan01, TenOClock)] >>,
      << [start |-> IsoStamp, end |-> Stamp(Jan02, EndOfDay)] >> }

Wages == {Dec(0, 0), Dec(100000, 0)}

\* Every date string a request of the model can carry.
DateStrings ==
    TxDates
    \cup UNION { UNION { { l[n].start, l[n].end } : n \in DOMAIN l } :
                 l \in QLists \cup PLists \cup KLists }

\* @lru_cache on parse_date: one strptime per distinct string.
parse_date_cache == [s \in DateStrings |-> strptime(s)]

parse_date(date_str) == parse_date_cache[date_str]

Init ==
    /\ \/ /\ op = "validate_transactions"
          /\ pc = "loop"
          /\ \E txs \in TxLists :
                payload = [wage |-> Dec(100000, 0), transactions |-> txs]
       \/ /\ op = "filter_transactions"
          /\ pc = "parse"
          /\ \E txs \in TxLists, q \in QLists, p \in PLists, k \in KLists :
                payload = [q |-> q, p |-> p, k |-> k, wage |-> Dec(100000, 0),
                           transactions |-> txs]
       \/ /\ op = "calculate_returns"
          /\ pc = "parse"
          /\ \E txs \in TxLists, q \in QLists, p \in PLists, k \in KLists,
                w \in Wages, nps \in BOOLEAN :
                /\ nps \/ w = Dec(100000, 0)
                /\ payload = [q |-> q, p |-> p, k |-> k, wage |-> w, is_nps |-> nps,
                              transactions |-> txs]
    /\ result = <<>>
    /\ HandlerIdle

\* Every date string of the q, p and k lists parses.
RulesParse ==
    /\ \A n \in 1..Len(payload.q) :
          parse_date(payload.q[n].start) # ValueError /\ parse_date(payload.q[n].end) # ValueError
    /\ \A n \in 1..Len(payload.p) :
          parse_date(payload.p[n].start) # ValueError /\ parse_date(payload.p[n].end) # ValueError
    /\ \A n \in 1..Len(payload.k) :
          parse_date(payload.k[n].start) # ValueError /\ parse_date(payload.k[n].end) # ValueError

ParsedQ ==
    [n \in 1..Len(payload.q) |->
        <<parse_date(payload.q[n].start), parse_date(payload.q[n].end), payload.q[n].fixed, n - 1>>]

ParsedP ==
    [n \in 1..Len(payload.p) |->
        <<parse_date(payload.p[n].start), parse_date(payload.p[n].end), payload.p[n].extra>>]

ParsedK ==
    [n \in 1..Len(payload.k) |->
        <<parse_date(payload.k[n].start), parse_date(payload.k[n].end),
          payload.k[n].start, payload.k[n].end>>]

\* The three list comprehensions at the head of filter_transactions and of
\* calculate_returns; the first string that does not parse ends the request.
ParseRules ==
    /\ op \in {"filter_transactions", "calculate_returns"}
    /\ pc = "parse"
    /\ IF RulesParse
       THEN /\ parsed_q' = ParsedQ
            /\ parsed_p' = ParsedP
            /\ parsed_k' = ParsedK
            /\ pc' = "loop"
       ELSE /\ pc' = "error"
            /\ UNCHANGED <<parsed_q, parsed_p, parsed_k>>
    /\ UNCHANGED <<op, payload, result, i, seen_dates, valid, invalid, valid_txs,
                   total_tx_amount, total_ceiling, savings_by_dates>>

(***************************************************************************)
(* validate_transactions                                                   *)
(***************************************************************************)

\* Variant: the duplicate test ahead of the amount test.
validate_branch_duplicate_first(tx, seen) ==
    IF tx.date \in seen THEN "Duplicate transaction"
    ELSE IF tx.amount < 0 THEN "Negative amounts are not allowed"
    ELSE None

\* The if / elif / else of the loop body: the message set, or None for the else.
validate_branch(tx, seen) ==
    IF tx.amount < 0 THEN "Negative amounts are not allowed"
    ELSE IF tx.date \in seen THEN "Duplicate transaction"
    ELSE None

\* Variant: a duplicate is skipped without being appended to invalid.
ValidateLoopDroppingDuplicates ==
    /\ op = "validate_transactions"
    /\ pc = "loop"
    /\ i <= Len(payload.transactions)
    /\ LET tx == payload.transactions[i]
           message == validate_branch(tx, seen_dates)
       IN IF message = None
          THEN /\ seen_dates' = seen_dates \cup {tx.date}
               /\ valid' = Append(valid, tx)
               /\ UNCHANGED invalid
          ELSE /\ invalid' = IF tx.amount < 0 THEN Append(invalid, [tx EXCEPT !.message = message])
                             ELSE invalid
               /\ UNCHANGED <<seen_dates, valid>>
    /\ i' = i + 1
    /\ UNCHANGED <<op, pc, payload, result, parsed_q, parsed_p, parsed_k, valid_txs,
                   total_tx_amount, total_ceiling, savings_by_dates>>

\* Variant: every date met is put in seen_dates, whatever the branch.
ValidateLoopMarkingAll ==
    /\ op = "validate_transactions"
    /\ pc = "loop"
    /\ i <= Len(payload.transactions)
    /\ LET tx == payload.transactions[i]
           message == validate_branch(tx, seen_dates)
       IN /\ seen_dates' = seen_dates \cup {tx.date}
          /\ IF message = None
             THEN valid' = Append(valid, tx) /\ UNCHANGED invalid
             ELSE invalid' = Append(invalid, [tx EXCEPT !.message = message]) /\ UNCHANGED valid
    /\ i' = i + 1
    /\ UNCHANGED <<op, pc, payload, result, parsed_q, parsed_p, parsed_k, valid_txs,
                   total_tx_amount, total_ceiling, savings_by_dates>>

\* One iteration of "for tx in payload.transactions".
ValidateLoop ==
    /\ op = "validate_transactions"
    /\ pc = "loop"
    /\ i <= Len(payload.transactions)
    /\ LET tx == payload.transactions[i]
           message == validate_branch(tx, seen_dates)
       IN IF message = None
          THEN /\ seen_dates' = seen_dates \cup {tx.date}
               /\ valid' = Append(valid, tx)
               /\ UNCHANGED invalid
          ELSE /\ invalid' = Append(invalid, [tx EXCEPT !.message = message])
               /\ UNCHANGED <<seen_dates, valid>>
    /\ i' = i + 1
    /\ UNCHANGED <<op, pc, payload, result, parsed_q, parsed_p, parsed_k, valid_txs,
                   total_tx_amount, total_ceiling, savings_by_dates>>

\* return ValidatorResponse(valid=valid, invalid=invalid), in both endpoints.
ReturnValidatorResponse ==
    /\ op \in {"validate_transactions", "filter_transactions"}
    /\ pc = "loop"
    /\ i > Len(payload.transactions)
    /\ result' = [valid |-> valid, invalid |-> invalid]
    /\ pc' = "done"
    /\ UNCHANGED <<op, payload, handlerVars>>

(***************************************************************************)
(* filter_transactions                                                     *)
(***************************************************************************)

\* The two early "continue" tests of the loop body.
filter_branch(tx, seen) ==
    IF tx.amount < 0 THEN "Negative amounts are not allowed"
    ELSE IF tx.date \in seen THEN "Duplicate transaction"
    ELSE None

\* any(k_start <= tx_dt <= k_end for k_start, k_end in parsed_k)
InAnyWindow(tx_dt, ks) ==
    \E n \in 1..Len(ks) : DtLe(ks[n][1], tx_dt) /\ DtLe(tx_dt, ks[n][2])

FilterLoop ==
    /\ op = "filter_transactions"
    /\ pc = "loop"
    /\ i <= Len(payload.transactions)
    /\ LET tx == payload.transactions[i]
           message == filter_branch(tx, seen_dates)
           tx_dt == parse_date(tx.date)
       IN IF message # None
          THEN /\ invalid' = Append(invalid, [tx EXCEPT !.message = message])
               /\ i' = i + 1
               /\ UNCHANGED <<pc, seen_dates, valid>>
          ELSE /\ seen_dates' = seen_dates \cup {tx.date}
               /\ IF tx_dt = ValueError
                  THEN /\ pc' = "error"
                       /\ UNCHANGED <<i, valid, invalid>>
                  ELSE /\ valid' = Append(valid,
                              [tx EXCEPT !.remanent = process_transaction_rules_fast(
                                                          tx_dt, tx.remanent, parsed_q, parsed_p),
                                         !.inkPeriod = InAnyWindow(tx_dt, parsed_k)])
                       /\ i' = i + 1
                       /\ UNCHANGED <<pc, invalid>>
    /\ UNCHANGED <<op, payload, result, parsed_q, parsed_p, parsed_k, valid_txs,
                   total_tx_amount, total_ceiling, savings_by_dates>>

(***************************************************************************)
(* calculate_returns                                                       *)
(***************************************************************************)

\* The condition under which the loop of calculate_returns takes a transaction.
returns_accepts(tx, seen) == tx.amount >= 0 /\ tx.date \notin seen

ReturnsLoop ==
    /\ op = "calculate_returns"
    /\ pc = "loop"
    /\ i <= Len(payload.transactions)
    /\ LET tx == payload.transactions[i]
           tx_dt == parse_date(tx.date)
       IN IF returns_accepts(tx, seen_dates)
          THEN /\ seen_dates' = seen_dates \cup {tx.date}
               /\ IF tx_dt = ValueError
                  THEN /\ pc' = "error"
                       /\ UNCHANGED <<i, valid_txs, total_tx_amount, total_ceiling>>
                  ELSE /\ valid_txs' = Append(valid_txs,
                              <<tx_dt, process_transaction_rules_fast(
                                           tx_dt, tx.remanent, parsed_q, parsed_p)>>)
                       /\ total_tx_amount' = total_tx_amount + tx.amount
                       /\ total_ceiling' = total_ceiling + tx.ceiling
                       /\ i' = i + 1
                       /\ UNCHANGED pc
          ELSE /\ i' = i + 1
               /\ UNCHANGED <<pc, seen_dates, valid_txs, total_tx_amount, total_ceiling>>
    /\ UNCHANGED <<op, payload, result, valid, invalid, parsed_q, parsed_p, parsed_k,
                   savings_by_dates>>

\* Variant: the window test with an exclusive end.
period_amount_exclusive_end(k, txs) ==
    SumSeq([n \in 1..Len(txs) |->
              IF DtLe(k[1], txs[n][1]) /\ DtLe(txs[n][1], k[2]) /\ txs[n][1] # k[2]
              THEN txs[n][2] ELSE 0])

\* sum(rem for dt, rem in valid_txs if k_start_dt <= dt <= k_end_dt)
period_amount(k, txs) ==
    SumSeq([n \in 1..Len(txs) |->
              IF DtLe(k[1], txs[n][1]) /\ DtLe(txs[n][1], k[2]) THEN txs[n][2] ELSE 0])

\* The tax-benefit branch of the window loop.
tax_benefit(amount, yearly_income) ==
    LET deduction == Min(Min(amount, yearly_income \div 10), Dec(200000, 0))
        base_tax == calculate_tax(yearly_income)
        new_tax == calculate_tax(yearly_income - deduction)
    IN Quantize(base_tax - new_tax)

\* One SavingsByDate.  The profit field, which comes out of the floating-point
\* projection fast_compound_math, is not carried.
SavingsByDate(k, txs) ==
    LET amount == period_amount(k, txs)
        yearly_income == payload.wage * 12
    IN [start |-> k[3], end |-> k[4], amount |-> Quantize(amount),
        taxBenefit |-> IF payload.is_nps THEN tax_benefit(amount, yearly_income) ELSE None]

\* The loop over parsed_k and the return of the ReturnsResponse.
ReturnsWindows ==
    /\ op = "calculate_returns"
    /\ pc = "loop"
    /\ i > Len(payload.transactions)
    /\ savings_by_dates' = [n \in 1..Len(parsed_k) |-> SavingsByDate(parsed_k[n], valid_txs)]
    /\ result' = [totalTransactionAmount |-> Quantize(total_tx_amount),
                  totalCeiling |-> Quantize(total_ceiling),
                  savingsByDates |-> savings_by_dates']
    /\ pc' = "done"
    /\ UNCHANGED <<op, payload, i, seen_dates, valid, invalid, parsed_q, parsed_p,
                   parsed_k, valid_txs, total_tx_amount, total_ceiling>>

Next ==
    \/ ParseRules
    \/ ValidateLoop
    \/ FilterLoop
    \/ ReturnValidatorResponse
    \/ ReturnsLoop
    \/ ReturnsWindows

Spec == Init /\ [][Next]_vars

(***************************************************************************)
(* Properties of the pure functions                                        *)
(***************************************************************************)

RECURSIVE SumOver(_, _)
\* The sum of f[n] over the finite set S of indices.
SumOver(f, S) ==
    IF S = {} THEN 0
    ELSE LET n == CHOOSE x \in S : TRUE IN f[n] + SumOver(f, S \ {n})

DtLt(a, b) == DtLe(a, b) /\ a # b

\* The positions of the rules of rs whose closed range holds t.
Containing(t, rs) == { n \in 1..Len(rs) : DtLe(rs[n][1], t) /\ DtLe(t, rs[n][2]) }

\* Among the rules holding t: latest start, and among equal starts the last declared.
LatestStartLastDeclared(t, qs) ==
    CHOOSE n \in Containing(t, qs) :
        \A m \in Containing(t, qs) :
            \/ DtLt(qs[m][1], qs[n][1])
            \/ (qs[m][1] = qs[n][1] /\ m <= n)

ExtraTotal(t, ps) == SumOver([n \in 1..Len(ps) |-> ps[n][3]], Containing(t, ps))

\* The list qs without the rules that do not hold t, enumerated afresh.
OnlyContaining(t, qs) ==
    LET kept == SelectSeq(qs, LAMBDA q : DtLe(q[1], t) /\ DtLe(t, q[2]))
    IN [n \in 1..Len(kept) |-> <<kept[n][1], kept[n][2], kept[n][3], n - 1>>]

Reverse(s) == [n \in 1..Len(s) |-> s[Len(s) + 1 - n]]

RulesDone == op = "process_transaction_rules_fast" /\ pc = "done"

\* C3: when at least one Q rule holds the timestamp, the base remanent is replaced
\* by the fixed value of exactly one rule, the one with the latest start and, among
\* equal latest starts, the highest index; rules not holding the timestamp have no
\* influence on the choice.
C3_FixedWinner ==
    (RulesDone /\ Containing(payload.tx_date, payload.parsed_q) # {}) =>
        LET t == payload.tx_date
            w == LatestStartLastDeclared(t, payload.parsed_q)
        IN /\ result - ExtraTotal(t, payload.parsed_p) = payload.parsed_q[w][3]
           /\ result = process_transaction_rules_fast(
                           t, payload.current_remanent,
                           OnlyContaining(t, payload.parsed_q), payload.parsed_p)

\* Two rules hold the timestamp; the one declared first starts later and won,
\* and its fixed value replaced the base remanent.
C3_Witness ==
    /\ RulesDone
    /\ payload.tx_date = DayDt(2)
    /\ Len(payload.parsed_q) = 2
    /\ payload.parsed_q[1][1] = DayDt(2) /\ payload.parsed_q[2][1] = DayDt(1)
    /\ payload.parsed_q[2][2] = DayDt(3)
    /\ payload.parsed_q[1][3] = Dec(200, 0) /\ payload.parsed_q[2][3] = Dec(100, 0)
    /\ payload.parsed_p = <<>>
    /\ result = Dec(200, 0)

\* C4: the result is the winning fixed value (or the base remanent when no Q rule
\* holds the timestamp) plus the extra of every P rule whose closed range holds the
\* timestamp, each once; the order of the P rules does not matter; with no rules
\* the base remanent comes back unchanged.
C4_AdditiveTotal ==
    RulesDone =>
        LET t == payload.tx_date
            qs == payload.parsed_q
            start == IF Containing(t, qs) = {} THEN payload.current_remanent
                     ELSE qs[LatestStartLastDeclared(t, qs)][3]
        IN /\ result = start + ExtraTotal(t, payload.parsed_p)
           /\ result = process_transaction_rules_fast(
                           t, payload.current_remanent, qs, Reverse(payload.parsed_p))
           /\ (qs = <<>> /\ payload.parsed_p = <<>> => result = payload.current_remanent)

\* Two P rules of extra 10 and 20 hold the timestamp, no Q rule does: base + 30.
C4_Witness ==
    /\ RulesDone
    /\ payload.tx_date = DayDt(2)
    /\ Containing(payload.tx_date, payload.parsed_q) = {}
    /\ Len(payload.parsed_p) = 2
    /\ Containing(payload.tx_date, payload.parsed_p) = {1, 2}
    /\ payload.parsed_p[1][3] = Dec(10, 0) /\ payload.parsed_p[2][3] = Dec(20, 0)
    /\ result = payload.current_remanent + Dec(30, 0)

\* C5: for every amount >= 0 the remanent r satisfies 0 <= r < 100, and it is 0 for
\* an exact multiple of 100.
C5_RemanentBelowHundred ==
    (op = "calculate_remanent" /\ pc = "done" /\ payload.amount >= 0) =>
        /\ 0 <= result
        /\ result < Dec(100, 0)
        /\ (payload.amount % Dec(100, 0) = 0 => result = 0)

\* C6: the tax is non-decreasing in the income, and at an income equal to a
\* threshold (which bisect_right puts in the bracket above) it equals what the
\* formula of the bracket below gives there.
C6_TaxMonotoneContinuous ==
    (op = "calculate_tax" /\ pc = "done") =>
        /\ (payload.a <= payload.b => result.a <= result.b)
        /\ \A n \in 1..Len(THRESHOLDS) :
              payload.a = THRESHOLDS[n] =>
                  /\ bisect_right(THRESHOLDS, payload.a) = n
                  /\ result.a = BracketTax(n - 1, payload.a)

\* An income 100 under the second threshold and the threshold itself: the tax
\* goes from 29990.00 to 30000.00, the base of the bracket above.
C6_Witness ==
    /\ op = "calculate_tax" /\ pc = "done"
    /\ payload.a = THRESHOLDS[2] - Dec(100, 0)
    /\ payload.b = THRESHOLDS[2]
    /\ result.a = Dec(29990, 0)
    /\ result.b = Dec(30000, 0)

(***************************************************************************)
(* Properties of the requests                                              *)
(***************************************************************************)

Txs == payload.transactions

Negative == "Negative amounts are not allowed"
Duplicate == "Duplicate transaction"

\* The identities of the transactions of a list.
IxOf(list) == { list[n].ix : n \in 1..Len(list) }

\* The identities of the entries of a list that carry the message m.
IxWith(list, m) == { list[n].ix : n \in { x \in 1..Len(list) : list[x].message = m } }

Increasing(list) == \A a, b \in 1..Len(list) : a < b => list[a].ix < list[b].ix

\* The first transaction of its date among those with amount >= 0.
FirstNonNegative(n) ==
    /\ Txs[n].amount >= 0
    /\ \A m \in 1..(n - 1) : ~(Txs[m].date = Txs[n].date /\ Txs[m].amount >= 0)

\* C1: validate_transactions puts every input transaction in exactly one of valid
\* and invalid, and each list keeps the input order.
C1_Partition ==
    (op = "validate_transactions" /\ pc = "done") =>
        /\ Len(result.valid) + Len(result.invalid) = Len(Txs)
        /\ IxOf(result.valid) \cup IxOf(result.invalid) = 1..Len(Txs)
        /\ IxOf(result.valid) \cap IxOf(result.invalid) = {}
        /\ Increasing(result.valid)
        /\ Increasing(result.invalid)
        /\ \A n \in 1..Len(result.valid) : result.valid[n] = Txs[result.valid[n].ix]
        /\ \A n \in 1..Len(result.invalid) :
              [result.invalid[n] EXCEPT !.message = None] = Txs[result.invalid[n].ix]

\* Three transactions, the second a duplicate of the first and the third negative:
\* one lands in valid, the other two in invalid in input order.
C1_Witness ==
    /\ op = "validate_transactions" /\ pc = "done"
    /\ Len(Txs) = 3
    /\ IxOf(result.valid) = {1}
    /\ Len(result.invalid) = 2
    /\ result.invalid[1].ix = 2 /\ result.invalid[1].message = Duplicate
    /\ result.invalid[2].ix = 3 /\ result.invalid[2].message = Negative

\* C2: in validate_transactions and in filter_transactions, a transaction with a
\* negative amount whose date is the date of an earlier transaction goes to invalid
\* with the negative-amount message, never with the duplicate message.
C2_NegativeBeforeDuplicate ==
    (op \in {"validate_transactions", "filter_transactions"} /\ pc \in {"loop", "done", "error"}) =>
        \A n \in 1..(i - 1) :
            (Txs[n].amount < 0 /\ \E m \in 1..(n - 1) : Txs[m].date = Txs[n].date) =>
                /\ n \in IxWith(invalid, Negative)
                /\ n \notin IxWith(invalid, Duplicate)

\* filter_transactions has answered a request whose second transaction is negative
\* and repeats the date of the first, which was accepted.
C2_Witness ==
    /\ op = "filter_transactions" /\ pc = "done"
    /\ Len(Txs) >= 2
    /\ Txs[2].amount < 0 /\ Txs[2].date = Txs[1].date
    /\ 1 \in IxOf(result.valid)
    /\ 2 \in IxWith(result.invalid, Negative)

\* The literal pattern YYYY-MM-DD HH:MM:SS.
PatternOk(s) ==
    /\ Len(s) = 19
    /\ \A x \in {1, 2, 3, 4, 6, 7, 9, 10, 12, 13, 15, 16, 18, 19} : IsDigit(s[x])
    /\ s[5] = "-" /\ s[8] = "-" /\ s[11] = " " /\ s[14] = ":" /\ s[17] = ":"

RuleStrings(l) == UNION { { l[n].start, l[n].end } : n \in 1..Len(l) }

\* Every timestamp string of the request in hand.
RequestStrings ==
    { Txs[n].date : n \in 1..Len(Txs) }
    \cup (IF op = "validate_transactions" THEN {}
          ELSE RuleStrings(payload.q) \cup RuleStrings(payload.p) \cup RuleStrings(payload.k))

Handlers == {"validate_transactions", "filter_transactions", "calculate_returns"}

\* C7: in validate_transactions, filter_transactions and calculate_returns, a
\* request carrying a timestamp string that does not match YYYY-MM-DD HH:MM:SS
\* fails as a whole: none is answered, and no transaction with such a date is in
\* a valid or invalid list.
C7_MalformedDateFailsRequest ==
    (op \in Handlers /\ pc = "done") =>
        /\ \A s \in RequestStrings : PatternOk(s)
        /\ op # "calculate_returns" =>
              \A n \in IxOf(result.valid) \cup IxOf(result.invalid) : PatternOk(Txs[n].date)

\* The rule-resolved remanent of transaction n of the request.
Resolved(n) ==
    process_transaction_rules_fast(parse_date(Txs[n].date), Txs[n].remanent, ParsedQ, ParsedP)

\* The accepted transactions whose timestamp lies in window w of the request.
InWindow(w) ==
    { n \in 1..Len(Txs) :
        /\ FirstNonNegative(n)
        /\ DtLe(parse_date(payload.k[w].start), parse_date(Txs[n].date))
        /\ DtLe(parse_date(Txs[n].date), parse_date(payload.k[w].end)) }

WindowSum(w) == SumOver([n \in 1..Len(Txs) |-> Resolved(n)], InWindow(w))

ReturnsDone == op = "calculate_returns" /\ pc = "done"

\* C8 as stated: the reported amount of every window equals the sum of the resolved
\* remanent of the accepted transactions inside the window.
C8_WindowAmountIsSum ==
    ReturnsDone =>
        /\ Len(result.savingsByDates) = Len(payload.k)
        /\ \A w \in 1..Len(payload.k) : result.savingsByDates[w].amount = WindowSum(w)

\* C8, amended: the reported amount of every window equals that sum rounded half-up
\* to two fraction digits; every window is evaluated on its own.
C8_WindowAmountIsRoundedSum ==
    ReturnsDone =>
        /\ Len(result.savingsByDates) = Len(payload.k)
        /\ \A w \in 1..Len(payload.k) :
              /\ result.savingsByDates[w].amount = Quantize(WindowSum(w))
              /\ result.savingsByDates[w].start = payload.k[w].start
              /\ result.savingsByDates[w].end = payload.k[w].end

\* Two overlapping windows, one accepted transaction inside both (on the closed
\* bounds of the second) and one inside neither; both windows report the first.
C8_Witness ==
    /\ ReturnsDone
    /\ Len(payload.k) = 2
    /\ Len(Txs) = 2
    /\ InWindow(1) = {1} /\ InWindow(2) = {1}
    /\ FirstNonNegative(2)
    /\ payload.p # <<>>
    /\ result.savingsByDates[1].amount = Dec(50, 10)
    /\ result.savingsByDates[2].amount = Dec(50, 10)

\* C9: the accepted transactions have pairwise different dates; a transaction with
\* amount >= 0 is rejected as a duplicate exactly when an earlier transaction of
\* the same date was accepted; a rejected negative transaction does not mark its
\* date, so the first non-negative occurrence of every date is the accepted one.
C9_FirstNonNegativeWins ==
    /\ (op \in {"validate_transactions", "filter_transactions"} /\ pc = "done") =>
          /\ \A a, b \in 1..Len(result.valid) :
                a # b => result.valid[a].date # result.valid[b].date
          /\ \A n \in 1..Len(Txs) :
                Txs[n].amount >= 0 =>
                    (n \in IxWith(result.invalid, Duplicate)
                        <=> \E m \in 1..(n - 1) :
                               Txs[m].date = Txs[n].date /\ m \in IxOf(result.valid))
          /\ IxOf(result.valid) = { n \in 1..Len(Txs) : FirstNonNegative(n) }
    /\ ReturnsDone =>
          /\ Len(valid_txs) = Cardinality({ n \in 1..Len(Txs) : FirstNonNegative(n) })
          /\ Len(valid_txs) = Cardinality(seen_dates)
          /\ result.totalTransactionAmount =
                Quantize(SumOver([n \in 1..Len(Txs) |-> Txs[n].amount],
                                 { n \in 1..Len(Txs) : FirstNonNegative(n) }))

\* A date met first with a negative amount, then twice with a non-negative one:
\* the second transaction is accepted and the third is the duplicate.
C9_Witness ==
    /\ op = "validate_transactions" /\ pc = "done"
    /\ Len(Txs) = 3
    /\ Txs[1].date = Txs[2].date /\ Txs[2].date = Txs[3].date
    /\ Txs[1].amount < 0 /\ Txs[2].amount >= 0 /\ Txs[3].amount >= 0
    /\ IxOf(result.valid) = {2}
    /\ IxWith(result.invalid, Negative) = {1}
    /\ IxWith(result.invalid, Duplicate) = {3}

\* C10: with the NPS preset the tax benefit of every window lies between 0 and the
\* tax on the yearly income, and the income handed to calculate_tax is not negative.
C10_TaxBenefitBounds ==
    (ReturnsDone /\ payload.is_nps) =>
        \A w \in 1..Len(payload.k) :
            LET yearly_income == payload.wage * 12
                deduction == Min(Min(WindowSum(w), yearly_income \div 10), Dec(200000, 0))
            IN /\ 0 <= result.savingsByDates[w].taxBenefit
               /\ result.savingsByDates[w].taxBenefit <= calculate_tax(yearly_income)
               /\ yearly_income - deduction >= 0

====
